---- MODULE Spec2Model ----
(***************************************************************************)
(* A model of the channels library.                                        *)
(*                                                                         *)
(*   core.Channel     src/channels/core.py     bounded, blocking channel   *)
(*   channel.Channel  src/channels/channel.py  non-blocking send, single   *)
(*                                             receiver, reopenable        *)
(*   stream.Merger    src/channels/stream.py   fan-in of several streams   *)
(*   Diverter         src/channels/diverter.py fan-out to channel.Channels *)
(*                                                                         *)
(* The asyncio event loop is modelled by `ready`, the FIFO of tasks whose  *)
(* awaited future is done and whose wake-up callback has been scheduled    *)
(* with call_soon: the task at the head is the next suspended call to      *)
(* resume.  A task that is not suspended in a channel call may start a new *)
(* call at any point (it is running, or was made runnable by something     *)
(* outside the channel).                                                   *)
(*                                                                         *)
(* A call creates a fresh Future each time it suspends; the call has at    *)
(* most one live Future, so a Future is named by the task that awaits it   *)
(* and fut[t] is its state: "none" (no future), "pending", "result",       *)
(* "exception" (Closure set by close()), "cancelled".                      *)
(***************************************************************************)
EXTENDS Integers, Sequences, FiniteSets, TLC

\* ---- bounds of the model ------------------------------------------------
NTasks == 2
MaxVal == 3
MaxCap == 2
MaxCancels == 1
MaxCloses == 2
NSrc == 2
MaxLen == 2
NChan == 2
MaxDelay == 2
MaxTime == 6

\* NTasks tasks contend for the channel; one more task exists that only the
\* wake-up scenarios (InitWakeSend, InitWakeRecv) let act, on the other side
Contenders == 1..NTasks
Counterpart == NTasks + 1
Tasks == 1..Counterpart
NoTask == 0

VARIABLES
    kind,           \* which class the scenario constructs: "core" or "channel"
    roles,          \* what each task does with the channel (scenario)
    \* core.Channel
    max_size,       \* _max_size
    values,         \* _values
    getters,        \* _getters
    putters,        \* _putters
    closer,         \* _closer: "pending" or "done"
    \* channel.Channel
    ch_max_size,    \* _buffer.maxlen (NoMaxSize for None)
    ch_buffer,      \* _buffer
    ch_receiver,    \* _receiver: the task whose future it holds, NoTask for None
    ch_closed,      \* _closed
    ch_debug,       \* __debug__ (the scenarios run the default build: TRUE)
    \* tasks and the event loop
    pc,             \* "idle", "send" (suspended in send), "recv" (suspended in recv)
    arg,            \* the value a suspended send call is sending
    fut,            \* state of the future each task awaits
    must_cancel,    \* Task._must_cancel: cancelled while its future was already done
    ready,          \* FIFO of scheduled task wake-ups
    \* history
    nextVal,        \* next value handed to send
    last,           \* the last step: [op, task, result]
    appended,       \* every value appended to the buffer, in order
    recvd,          \* every value returned by recv, in order
    blocked_order,  \* suspended calls, in the order they first suspended
    cancels,        \* number of task cancellations so far
    closes          \* number of close() calls so far

VARIABLES
    \* stream.Merger: the sources of the scenario
    m_len,          \* how many values each source produces before it is exhausted
    m_fail,         \* which pull of each source raises an Exception (0: none)
    m_pos,          \* how many pulls of each source have completed
    \* stream.Merger
    m_suppress,     \* _suppress_exceptions
    m_streams,      \* _streams
    m_todo,         \* __aiter__ todo: the pull tasks in flight
    m_done,         \* __aiter__ done: the completed pull tasks, with their outcome
    m_wake,         \* __aiter__ wake: "pending" or "done"
    m_results,      \* __aiter__ results
    m_pc,           \* where the generator is: "init", "yield", "wait", "ended", "raised"
    \* history
    m_pulls,        \* number of pulls dispatched for each source
    m_added,        \* the sources passed to add()
    m_late,         \* the sources passed to add() while a yielded value was processed
    m_yielded,      \* the values yielded, in order, by the source they came from
    m_cancelled     \* the pull tasks cancelled by the generator

VARIABLES
    \* diverter.Diverter and the channel.Channel objects attached to it
    d_channels,     \* _channels: the attached [token, chan] pairs, in insertion order
    d_max_size,     \* _buffer.maxlen of the channels (NoMaxSize for None)
    d_buffer,       \* _buffer of each channel
    d_closed,       \* _closed of each channel
    \* history
    d_val,          \* next value handed to Diverter.send
    d_tok,          \* next token handed out by attach
    d_result        \* how the last Diverter.send ended: "ok" or "Closure"

VARIABLES
    \* channel.Channel.__aiter__, iterated by task IterTask
    it_pc,          \* where the generator is: "init", "recv", "yield", "ended", "error"
    it_out          \* every value the iteration yielded, in order

VARIABLES
    \* a Stream / Series operator (timeout, limit or stagger) over a parent
    o_op,           \* the operator: "timeout", "limit", "stagger" ("none": no operator)
    o_delay,        \* the delay argument of timeout and stagger
    o_bound,        \* the bound argument of limit
    o_instant,      \* stagger's instant_first
    o_first_timed,  \* timeout: Stream's first, Series's not infinite_first
    o_vals,         \* the values the parent produces
    o_stalls,       \* the parent stalls for ever after its values (else it is exhausted)
    o_pos,          \* how many values the parent has delivered
    o_pull,         \* the pull of the parent: "none", "flight", "cancelled"
    o_pc,           \* where the generator is: "init", "sleep_first", "pull_first",
                    \* "pull", "sleep", "yield", "ended"
    o_timed,        \* the pull in flight is under wait_for
    o_timer,        \* ticks left of the sleep or of the deadline
    o_now,          \* loop.time()
    o_prev,         \* stagger's prev_yield_time
    o_held,         \* stagger's value while it sleeps
    o_count,        \* limit's count
    \* history
    o_out,          \* the values yielded and when: [val, at]
    o_end           \* how the generator ended: "none", "stop", or the exception

coreVars == <<max_size, values, getters, putters, closer>>
chVars == <<ch_max_size, ch_buffer, ch_receiver, ch_closed, ch_debug>>
taskVars == <<pc, arg, fut, must_cancel, ready>>
histVars == <<nextVal, last, appended, recvd, blocked_order, cancels, closes>>
srcVars == <<m_len, m_fail, m_pos>>
mergerVars == <<m_suppress, m_streams, m_todo, m_done, m_wake, m_results, m_pc,
                m_pulls, m_added, m_late, m_yielded, m_cancelled>>
divVars == <<d_channels, d_max_size, d_buffer, d_closed, d_val, d_tok, d_result>>
itVars == <<it_pc, it_out>>
opVars == <<o_op, o_delay, o_bound, o_instant, o_first_timed, o_vals, o_stalls, o_pos,
           o_pull, o_pc, o_timed, o_timer, o_now, o_prev, o_held, o_count, o_out, o_end>>
extVars == <<srcVars, mergerVars, divVars, opVars>>
vars == <<kind, roles, coreVars, chVars, taskVars, histVars, extVars, itVars>>

\* what the actions of one component leave alone
notMerger ==
    <<kind, roles, coreVars, chVars, taskVars, histVars, divVars, itVars, opVars>>
notDiverter ==
    <<kind, roles, coreVars, chVars, taskVars, histVars, srcVars, mergerVars, itVars,
      opVars>>
notOps ==
    <<kind, roles, coreVars, chVars, taskVars, histVars, srcVars, mergerVars, divVars,
      itVars>>

\* ---- sequences ----------------------------------------------------------
Range(s) == {s[i] : i \in 1..Len(s)}

\* deque.remove(x) that finds nothing to remove
RemoveNothing(s, x) == s

\* deque.remove(x): removes the first occurrence; ValueError (ignored by the
\* callers) when absent
Remove(s, x) == SelectSeq(s, LAMBDA y : y # x)

Before(s, a, b) ==
    \E i, j \in 1..Len(s) : i < j /\ s[i] = a /\ s[j] = b

\* ---- core.Channel -------------------------------------------------------
closed == closer = "done"

empty(vals) == Len(vals) = 0

\* full() with the comparison off by one
full_gt(vals) == IF max_size <= 0 THEN FALSE ELSE Len(vals) > max_size

full(vals) == IF max_size <= 0 THEN FALSE ELSE Len(vals) >= max_size

\* Future.done()
done(f, t) == f[t] # "pending"

\* _wake_next that gives up at the first entry when it is done
wake_next_first(waiters, f) ==
    IF waiters = <<>> THEN [waiters |-> <<>>, woken |-> NoTask]
    ELSE IF ~done(f, Head(waiters))
         THEN [waiters |-> Tail(waiters), woken |-> Head(waiters)]
         ELSE [waiters |-> Tail(waiters), woken |-> NoTask]

\* _wake_next: pop waiters until one that is not done, and set its result.
\* Yields the remaining queue and the task woken (NoTask when none).
RECURSIVE wake_next(_, _)
wake_next(waiters, f) ==
    IF waiters = <<>> THEN [waiters |-> <<>>, woken |-> NoTask]
    ELSE IF ~done(f, Head(waiters))
         THEN [waiters |-> Tail(waiters), woken |-> Head(waiters)]
         ELSE wake_next(Tail(waiters), f)

\* Future.set_result(None) on the woken waiter; its task's wake-up is scheduled
set_result(f, t) == IF t = NoTask THEN f ELSE [f EXCEPT ![t] = "result"]
call_soon(rdy, t) == IF t = NoTask THEN rdy ELSE Append(rdy, t)

\* Future.cancel(): only a pending future changes state
fut_cancel(s) == IF s = "pending" THEN "cancelled" ELSE s

Step(op, t, result) == [op |-> op, task |-> t, result |-> result]

\* The call of task t ends: it returned ("ok") or raised
Finish(op, t, how) ==
    /\ pc' = [pc EXCEPT ![t] = "idle"]
    /\ arg' = [arg EXCEPT ![t] = 0]
    /\ must_cancel' = [must_cancel EXCEPT ![t] = FALSE]
    /\ last' = Step(op, t, how)
    /\ blocked_order' = Remove(blocked_order, t)

\* send, lines 85-88: create a future, queue it, suspend
send_block(t, v, rdy) ==
    /\ putters' = Append(putters, t)
    /\ fut' = [fut EXCEPT ![t] = "pending"]
    /\ pc' = [pc EXCEPT ![t] = "send"]
    /\ arg' = [arg EXCEPT ![t] = v]
    /\ must_cancel' = [must_cancel EXCEPT ![t] = FALSE]
    /\ ready' = rdy
    /\ blocked_order' = IF t \in Range(blocked_order) THEN blocked_order
                        ELSE Append(blocked_order, t)
    /\ last' = Step("send", t, "suspended")
    /\ UNCHANGED <<values, getters, appended, recvd>>

\* send appending its value twice
send_put_twice(t, v, rdy) ==
    LET w == wake_next(getters, fut) IN
    /\ values' = Append(Append(values, v), v)
    /\ appended' = Append(appended, v)
    /\ getters' = w.waiters
    /\ fut' = [set_result(fut, w.woken) EXCEPT ![t] = "none"]
    /\ ready' = call_soon(rdy, w.woken)
    /\ Finish("send", t, "ok")
    /\ UNCHANGED <<putters, recvd>>

\* send, lines 98-99: append the value and wake the next getter
send_put(t, v, rdy) ==
    LET w == wake_next(getters, fut) IN
    /\ values' = Append(values, v)
    /\ appended' = Append(appended, v)
    /\ getters' = w.waiters
    /\ fut' = [set_result(fut, w.woken) EXCEPT ![t] = "none"]
    /\ ready' = call_soon(rdy, w.woken)
    /\ Finish("send", t, "ok")
    /\ UNCHANGED <<putters, recvd>>

\* send whose unwinding keeps the wake-up it received for itself
send_except_keep(t, rdy) ==
    LET state == fut_cancel(fut[t])
        exc == IF must_cancel[t] \/ state = "cancelled" THEN "Cancelled" ELSE "Closure" IN
    /\ putters' = Remove(putters, t)
    /\ fut' = [fut EXCEPT ![t] = "none"]
    /\ ready' = rdy
    /\ Finish("send", t, exc)
    /\ UNCHANGED <<values, getters, appended, recvd>>

\* send, lines 89-97: the await raised (Closure set by close(), or CancelledError)
send_except(t, rdy) ==
    LET state == fut_cancel(fut[t])
        exc == IF must_cancel[t] \/ state = "cancelled" THEN "Cancelled" ELSE "Closure"
        left == Remove(putters, t)
        pass_on == ~full(values) /\ state # "cancelled"
        w == IF pass_on THEN wake_next(left, fut)
             ELSE [waiters |-> left, woken |-> NoTask] IN
    /\ putters' = w.waiters
    /\ fut' = [set_result(fut, w.woken) EXCEPT ![t] = "none"]
    /\ ready' = call_soon(rdy, w.woken)
    /\ Finish("send", t, exc)
    /\ UNCHANGED <<values, getters, appended, recvd>>

\* send, the `while self.full()` test
send_loop(t, v, rdy) ==
    IF full(values) THEN send_block(t, v, rdy) ELSE send_put(t, v, rdy)

\* send(value) without the test of lines 82-83
send_call_unchecked(t) ==
    /\ kind = "core"
    /\ pc[t] = "idle"
    /\ roles[t] \in {"sender", "both"}
    /\ nextVal <= MaxVal
    /\ nextVal' = nextVal + 1
    /\ send_loop(t, nextVal, ready)
    /\ UNCHANGED <<extVars, itVars, kind, roles, chVars, max_size, closer, cancels, closes>>

\* A task calls send(value): runs up to the first suspension or to the end
send_call(t) ==
    /\ kind = "core"
    /\ pc[t] = "idle"
    /\ roles[t] \in {"sender", "both"}
    /\ nextVal <= MaxVal
    /\ nextVal' = nextVal + 1
    /\ IF closed
       THEN /\ Finish("send", t, "Closure")
            /\ UNCHANGED <<values, getters, putters, fut, ready, appended, recvd>>
       ELSE send_loop(t, nextVal, ready)
    /\ UNCHANGED <<extVars, itVars, kind, roles, chVars, max_size, closer, cancels, closes>>

\* The event loop resumes a task suspended in send at `await putter`
send_resume(t) ==
    /\ kind = "core"
    /\ ready # <<>> /\ Head(ready) = t
    /\ pc[t] = "send"
    /\ IF must_cancel[t] \/ fut[t] # "result"
       THEN send_except(t, Tail(ready))
       ELSE send_loop(t, arg[t], Tail(ready))
    /\ UNCHANGED <<extVars, itVars, kind, roles, chVars, max_size, closer, nextVal, cancels, closes>>

\* recv, lines 110-113: create a future, queue it, suspend
recv_block(t, rdy) ==
    /\ getters' = Append(getters, t)
    /\ fut' = [fut EXCEPT ![t] = "pending"]
    /\ pc' = [pc EXCEPT ![t] = "recv"]
    /\ must_cancel' = [must_cancel EXCEPT ![t] = FALSE]
    /\ ready' = rdy
    /\ blocked_order' = IF t \in Range(blocked_order) THEN blocked_order
                        ELSE Append(blocked_order, t)
    /\ last' = Step("recv", t, "suspended")
    /\ UNCHANGED <<values, putters, arg, appended, recvd>>

\* recv taking the newest value (pop() for popleft())
recv_take_newest(t, rdy) ==
    LET w == wake_next(putters, fut) IN
    /\ values' = SubSeq(values, 1, Len(values) - 1)
    /\ recvd' = Append(recvd, values[Len(values)])
    /\ putters' = w.waiters
    /\ fut' = [set_result(fut, w.woken) EXCEPT ![t] = "none"]
    /\ ready' = call_soon(rdy, w.woken)
    /\ Finish("recv", t, "ok")
    /\ UNCHANGED <<getters, appended>>

\* recv, lines 123-125: take the oldest value and wake the next putter
recv_take(t, rdy) ==
    LET w == wake_next(putters, fut) IN
    /\ values' = Tail(values)
    /\ recvd' = Append(recvd, Head(values))
    /\ putters' = w.waiters
    /\ fut' = [set_result(fut, w.woken) EXCEPT ![t] = "none"]
    /\ ready' = call_soon(rdy, w.woken)
    /\ Finish("recv", t, "ok")
    /\ UNCHANGED <<getters, appended>>

\* recv whose unwinding discards the value its wake-up announced
recv_except_drop(t, rdy) ==
    LET state == fut_cancel(fut[t])
        exc == IF must_cancel[t] \/ state = "cancelled" THEN "Cancelled" ELSE "Closure"
        left == Remove(getters, t)
        woken == state = "result" /\ ~empty(values) IN
    /\ getters' = left
    /\ values' = IF woken THEN Tail(values) ELSE values
    /\ fut' = [fut EXCEPT ![t] = "none"]
    /\ ready' = rdy
    /\ Finish("recv", t, exc)
    /\ UNCHANGED <<putters, appended, recvd>>

\* recv whose unwinding keeps the wake-up it received for itself
recv_except_keep(t, rdy) ==
    LET state == fut_cancel(fut[t])
        exc == IF must_cancel[t] \/ state = "cancelled" THEN "Cancelled" ELSE "Closure" IN
    /\ getters' = Remove(getters, t)
    /\ fut' = [fut EXCEPT ![t] = "none"]
    /\ ready' = rdy
    /\ Finish("recv", t, exc)
    /\ UNCHANGED <<values, putters, appended, recvd>>

\* recv, lines 114-122: the await raised
recv_except(t, rdy) ==
    LET state == fut_cancel(fut[t])
        exc == IF must_cancel[t] \/ state = "cancelled" THEN "Cancelled" ELSE "Closure"
        left == Remove(getters, t)
        pass_on == ~empty(values) /\ state # "cancelled"
        w == IF pass_on THEN wake_next(left, fut)
             ELSE [waiters |-> left, woken |-> NoTask] IN
    /\ getters' = w.waiters
    /\ fut' = [set_result(fut, w.woken) EXCEPT ![t] = "none"]
    /\ ready' = call_soon(rdy, w.woken)
    /\ Finish("recv", t, exc)
    /\ UNCHANGED <<values, putters, appended, recvd>>

\* recv, the `while self.empty()` test
recv_loop(t, rdy) ==
    IF empty(values) THEN recv_block(t, rdy) ELSE recv_take(t, rdy)

\* A task calls recv()
recv_call(t) ==
    /\ kind = "core"
    /\ pc[t] = "idle"
    /\ roles[t] \in {"receiver", "both"}
    /\ IF closed /\ empty(values)
       THEN /\ Finish("recv", t, "Closure")
            /\ UNCHANGED <<values, getters, putters, fut, ready, appended, recvd>>
       ELSE recv_loop(t, ready)
    /\ UNCHANGED <<extVars, itVars, kind, roles, chVars, max_size, closer, nextVal, cancels, closes>>

\* The event loop resumes a task suspended in recv at `await getter`
recv_resume(t) ==
    /\ kind = "core"
    /\ ready # <<>> /\ Head(ready) = t
    /\ pc[t] = "recv"
    /\ IF must_cancel[t] \/ fut[t] # "result"
       THEN recv_except(t, Tail(ready))
       ELSE recv_loop(t, Tail(ready))
    /\ UNCHANGED <<extVars, itVars, kind, roles, chVars, max_size, closer, nextVal, cancels, closes>>

\* close(), lines 71-74: set_exception on the queued waiters in order, putters
\* then getters.  set_exception on a future that is already done raises
\* InvalidStateError, which leaves the loop: the waiters behind it are not
\* reached.  Yields the tasks whose future got the exception, in order, and
\* whether the walk raised.
RECURSIVE set_exceptions(_, _)
set_exceptions(waiters, f) ==
    IF waiters = <<>> THEN [woken |-> <<>>, raised |-> FALSE]
    ELSE IF done(f, Head(waiters)) THEN [woken |-> <<>>, raised |-> TRUE]
    ELSE LET rest == set_exceptions(Tail(waiters), f) IN
         [woken |-> <<Head(waiters)>> \o rest.woken, raised |-> rest.raised]

\* close() that walks the queues again when already closed
close_again ==
    /\ kind = "core"
    /\ closes < MaxCloses
    /\ closes' = closes + 1
    /\ LET r == set_exceptions(putters \o getters, fut) IN
       /\ closer' = "done"
       /\ fut' = [t \in Tasks |->
                    IF t \in Range(r.woken) THEN "exception" ELSE fut[t]]
       /\ ready' = ready \o r.woken
       /\ last' = Step("close", NoTask, IF r.raised THEN "InvalidStateError" ELSE "ok")
    /\ UNCHANGED <<extVars, itVars, kind, roles, chVars, max_size, values, getters, putters, pc, arg,
                   must_cancel, nextVal, appended, recvd,
                   blocked_order, cancels>>

close ==
    /\ kind = "core"
    /\ closes < MaxCloses
    /\ closes' = closes + 1
    /\ IF closed
       THEN /\ last' = Step("close", NoTask, "RuntimeError")
            /\ UNCHANGED <<closer, fut, ready>>
       ELSE LET r == set_exceptions(putters \o getters, fut) IN
            /\ closer' = "done"
            /\ fut' = [t \in Tasks |->
                         IF t \in Range(r.woken) THEN "exception" ELSE fut[t]]
            /\ ready' = ready \o r.woken
            /\ last' = Step("close", NoTask, IF r.raised THEN "InvalidStateError" ELSE "ok")
    /\ UNCHANGED <<extVars, itVars, kind, roles, chVars, max_size, values, getters, putters, pc, arg,
                   must_cancel, nextVal, appended, recvd,
                   blocked_order, cancels>>

\* Task.cancel() on a task suspended in send or recv: a pending future is
\* cancelled (and the wake-up scheduled); when the future is already done the
\* task is flagged and CancelledError is thrown in when it resumes.
cancel(t) ==
    /\ pc[t] # "idle"
    /\ cancels < MaxCancels
    /\ ~must_cancel[t] /\ fut[t] # "cancelled"
    /\ cancels' = cancels + 1
    /\ last' = Step("cancel", t, "ok")
    /\ IF fut[t] = "pending"
       THEN /\ fut' = [fut EXCEPT ![t] = "cancelled"]
            /\ ready' = Append(ready, t)
            /\ UNCHANGED must_cancel
       ELSE /\ must_cancel' = [must_cancel EXCEPT ![t] = TRUE]
            /\ UNCHANGED <<fut, ready>>
    /\ UNCHANGED <<extVars, itVars, kind, roles, chVars, coreVars, pc, arg, nextVal, appended,
                   recvd, blocked_order, closes>>

\* ---- channel.Channel ----------------------------------------------------
\* max_size=None: collections.deque(maxlen=None) is unbounded
NoMaxSize == -1

\* an append that refuses the new item when the deque is at maxlen
deque_append_refuse(buf, v, maxlen) ==
    IF maxlen = NoMaxSize THEN Append(buf, v)
    ELSE IF Len(buf) >= maxlen THEN buf
    ELSE Append(buf, v)

\* deque.append on a deque with maxlen: at maxlen the leftmost item is
\* discarded (with maxlen 0 nothing is kept)
deque_append(buf, v, maxlen) ==
    IF maxlen = NoMaxSize THEN Append(buf, v)
    ELSE IF maxlen = 0 THEN <<>>
    ELSE IF Len(buf) >= maxlen THEN Append(Tail(buf), v)
    ELSE Append(buf, v)

\* `not (receiver is None or receiver.done())`
receiver_waiting == ch_receiver # NoTask /\ ~done(fut, ch_receiver)

\* send(value): synchronous
ch_send ==
    /\ kind = "channel"
    /\ nextVal <= MaxVal
    /\ nextVal' = nextVal + 1
    /\ IF ch_closed
       THEN /\ last' = Step("send", NoTask, "Closure")
            /\ UNCHANGED <<ch_buffer, fut, ready>>
       ELSE /\ ch_buffer' = deque_append(ch_buffer, nextVal, ch_max_size)
            /\ last' = Step("send", NoTask, "ok")
            /\ IF receiver_waiting
               THEN /\ fut' = set_result(fut, ch_receiver)
                    /\ ready' = call_soon(ready, ch_receiver)
               ELSE UNCHANGED <<fut, ready>>
    /\ UNCHANGED <<extVars, itVars, kind, roles, coreVars, ch_max_size, ch_receiver, ch_closed,
                   ch_debug, pc, arg, must_cancel, appended, recvd,
                   blocked_order, cancels, closes>>

\* recv, lines 93-96: create a future, store it in _receiver, suspend
ch_recv_block(t, rdy) ==
    /\ ch_receiver' = t
    /\ fut' = [fut EXCEPT ![t] = "pending"]
    /\ pc' = [pc EXCEPT ![t] = "recv"]
    /\ must_cancel' = [must_cancel EXCEPT ![t] = FALSE]
    /\ ready' = rdy
    /\ blocked_order' = IF t \in Range(blocked_order) THEN blocked_order
                        ELSE Append(blocked_order, t)
    /\ last' = Step("recv", t, "suspended")
    /\ UNCHANGED <<ch_buffer, arg, recvd>>

\* recv, line 99: return buffer.popleft()
ch_recv_take(t, rdy, receiver) ==
    /\ ch_buffer' = Tail(ch_buffer)
    /\ recvd' = Append(recvd, Head(ch_buffer))
    /\ ch_receiver' = receiver
    /\ fut' = [fut EXCEPT ![t] = "none"]
    /\ ready' = rdy
    /\ Finish("recv", t, "ok")

\* recv, the `while not buffer` test
ch_recv_loop(t, rdy, receiver) ==
    IF ch_buffer = <<>> THEN ch_recv_block(t, rdy)
    ELSE ch_recv_take(t, rdy, receiver)

\* recv raises: Closure, RuntimeError (the debug guard) or CancelledError
ch_recv_raise(t, rdy, receiver, exc) ==
    /\ ch_receiver' = receiver
    /\ fut' = [fut EXCEPT ![t] = "none"]
    /\ ready' = rdy
    /\ Finish("recv", t, exc)
    /\ UNCHANGED <<ch_buffer, recvd>>

\* A task calls recv()
ch_recv_call(t) ==
    /\ kind = "channel"
    /\ roles[t] \in {"receiver", "both"}
    /\ pc[t] = "idle"
    /\ IF ch_closed THEN ch_recv_raise(t, ready, ch_receiver, "Closure")
       ELSE IF ch_debug /\ ch_receiver # NoTask
       THEN ch_recv_raise(t, ready, ch_receiver, "RuntimeError")
       ELSE ch_recv_loop(t, ready, ch_receiver)
    /\ UNCHANGED <<extVars, kind, roles, coreVars, ch_max_size, ch_closed, ch_debug,
                   nextVal, appended, cancels, closes>>

\* The event loop resumes a task suspended in recv at `await receiver`; the
\* finally clause resets _receiver to None before anything else
ch_recv_resume(t) ==
    /\ kind = "channel"
    /\ ready # <<>> /\ Head(ready) = t
    /\ pc[t] = "recv"
    /\ IF must_cancel[t] \/ fut[t] = "cancelled"
       THEN ch_recv_raise(t, Tail(ready), NoTask, "Cancelled")
       ELSE IF fut[t] = "exception"
       THEN ch_recv_raise(t, Tail(ready), NoTask, "Closure")
       ELSE ch_recv_loop(t, Tail(ready), NoTask)
    /\ UNCHANGED <<extVars, kind, roles, coreVars, ch_max_size, ch_closed, ch_debug,
                   nextVal, appended, cancels, closes>>

\* open()
ch_open ==
    /\ kind = "channel"
    /\ ch_closed' = FALSE
    /\ last' = Step("open", NoTask, "ok")
    /\ UNCHANGED <<extVars, itVars, kind, roles, coreVars, ch_max_size, ch_buffer, ch_receiver,
                   ch_debug, taskVars, nextVal, appended, recvd, blocked_order,
                   cancels, closes>>

\* close()
ch_close ==
    /\ kind = "channel"
    /\ ch_closed' = TRUE
    /\ last' = Step("close", NoTask, "ok")
    /\ IF receiver_waiting
       THEN /\ fut' = [fut EXCEPT ![ch_receiver] = "exception"]
            /\ ready' = Append(ready, ch_receiver)
       ELSE UNCHANGED <<fut, ready>>
    /\ UNCHANGED <<extVars, itVars, kind, roles, coreVars, ch_max_size, ch_buffer, ch_receiver,
                   ch_debug, pc, arg, must_cancel, nextVal, appended, recvd,
                   blocked_order, cancels, closes>>

\* clear() that also resets the closed flag
ch_clear_reset ==
    /\ kind = "channel"
    /\ ch_buffer' = <<>>
    /\ ch_closed' = FALSE
    /\ last' = Step("clear", NoTask, "ok")
    /\ UNCHANGED <<extVars, itVars, kind, roles, coreVars, ch_max_size, ch_receiver,
                   ch_debug, taskVars, nextVal, appended, recvd, blocked_order,
                   cancels, closes>>

\* clear()
ch_clear ==
    /\ kind = "channel"
    /\ ch_buffer' = <<>>
    /\ last' = Step("clear", NoTask, "ok")
    /\ UNCHANGED <<extVars, itVars, kind, roles, coreVars, ch_max_size, ch_receiver, ch_closed,
                   ch_debug, taskVars, nextVal, appended, recvd, blocked_order,
                   cancels, closes>>

\* ---- channel.Channel.__aiter__ --------------------------------------------
\* The task that iterates the channel
IterTask == 1

\* the generator without its except clause: Closure leaves it as an error
it_after_uncaught ==
    /\ it_pc' = CASE last'.result = "ok" -> "yield"
                  [] last'.result = "suspended" -> "recv"
                  [] OTHER -> "error"
    /\ it_out' = IF last'.result = "ok" THEN Append(it_out, Head(ch_buffer))
                 ELSE it_out

\* try: while True: yield await self.recv() / except Closure: return.
\* What the generator does with the outcome of its recv call: it yields the
\* value, stays suspended inside recv, ends on Closure, and lets any other
\* exception through to the consumer.
it_after ==
    /\ it_pc' = CASE last'.result = "ok" -> "yield"
                  [] last'.result = "suspended" -> "recv"
                  [] last'.result = "Closure" -> "ended"
                  [] OTHER -> "error"
    /\ it_out' = IF last'.result = "ok" THEN Append(it_out, Head(ch_buffer))
                 ELSE it_out

\* The consumer asks the iteration for its next value: the generator starts,
\* or continues after the yield, and calls recv
it_anext ==
    /\ it_pc \in {"init", "yield"}
    /\ ch_recv_call(IterTask)
    /\ it_after

\* The event loop resumes the generator suspended in recv
it_resume ==
    /\ it_pc = "recv"
    /\ ch_recv_resume(IterTask)
    /\ it_after

\* ---- stream.Merger ------------------------------------------------------
Srcs == 1..NSrc

\* The k-th value of source s
val(s, k) == 10 * s + k

\* The source a value came from
src_of(v) == v \div 10

\* A pull task: create_task(anext(stream)), the n-th pull dispatched for s
Pull(s, n) == [src |-> s, n |-> n]

\* What the k-th completed pull of source s reports: a value, an Exception
\* (the m_fail[s]-th pull), or StopAsyncIteration once the values are used up
outcome(s, k) ==
    IF m_fail[s] = k THEN [how |-> "error", val |-> 0]
    ELSE LET i == IF m_fail[s] # 0 /\ k > m_fail[s] THEN k - 1 ELSE k
         IN  IF i <= m_len[s] THEN [how |-> "value", val |-> val(s, i)]
             ELSE [how |-> "stop", val |-> 0]

\* The locals of __aiter__ and the deque it shares with add()
MState ==
    [streams |-> m_streams, todo |-> m_todo, done |-> m_done, wake |-> m_wake,
     results |-> m_results, pc |-> m_pc, pulls |-> m_pulls,
     yielded |-> m_yielded, cancelled |-> m_cancelled]

\* How many times s is in the deque q
Count(q, s) == Cardinality({i \in 1..Len(q) : q[i] = s})

\* the dispatch loop taking one stream only (if for while)
dispatch_first(st) ==
    IF st.streams = <<>> THEN st
    ELSE [st EXCEPT
            !.streams = Tail(@),
            !.todo = @ \cup {Pull(Head(st.streams), st.pulls[Head(st.streams)] + 1)},
            !.pulls[Head(st.streams)] = @ + 1]

\* while streams: popleft, create_task(anext(stream)), todo[task] = stream:
\* one new pull for every entry of the deque
dispatch(st) ==
    [st EXCEPT
        !.streams = <<>>,
        !.todo = @ \cup UNION {{Pull(s, st.pulls[s] + j) :
                                    j \in 1..Count(st.streams, s)} : s \in Srcs},
        !.pulls = [s \in Srcs |-> @[s] + Count(st.streams, s)]]

\* the else branch keeping the stream back until its value has been yielded
requeue_late(st, s, v) == [st EXCEPT !.results = Append(@, v)]

\* the else branch registering the stream twice
requeue_twice(st, s, v) ==
    [st EXCEPT !.streams = Append(Append(@, s), s), !.results = Append(@, v)]

\* else: streams.append(stream); results.append(result)
requeue(st, s, v) ==
    [st EXCEPT !.streams = Append(@, s), !.results = Append(@, v)]

\* the failure raised without cancelling the pulls in flight
failed_nocancel(st) == [st EXCEPT !.pc = "raised"]

\* except Exception, not suppressed: for task in todo: task.cancel(); raise
failed(st) ==
    [st EXCEPT !.cancelled = @ \cup st.todo, !.pc = "raised"]

\* a suppressed failure registering the stream again
suppressed_retry(st, s) == [st EXCEPT !.streams = Append(@, s)]

\* except Exception, suppressed: logging.exception(...); continue
suppressed(st, s) == st

\* for task, stream in done.items(): ...; done.clear()
RECURSIVE process(_, _)
process(st, d) ==
    IF st.pc = "raised" THEN st
    ELSE IF d = <<>> THEN [st EXCEPT !.done = <<>>]
    ELSE LET it == Head(d)
         IN  CASE it.outcome.how = "stop" -> process(st, Tail(d))
               [] it.outcome.how = "error" ->
                    IF m_suppress THEN process(suppressed(st, it.task.src), Tail(d))
                    ELSE failed(st)
               [] it.outcome.how = "cancelled" -> failed(st)
               [] it.outcome.how = "value" ->
                    process(requeue(st, it.task.src, it.outcome.val), Tail(d))

\* the end test looking at todo only
finished_todo(st) == st.todo = {}

\* if not (todo or done): return
finished(st) == st.todo = {} /\ st.done = <<>>

\* The generator runs from the drain loop to its next suspension: a yield,
\* the await of a pending wake, or its end.  A wake that is already done is
\* awaited without suspending.
RECURSIVE drain(_)
RECURSIVE after_wake(_)
\* the drain taking the completed pulls before the buffer is empty, and the
\* newest result first (pop for popleft)
drain_newest(st) ==
    IF st.wake = "done" /\ st.done # <<>> THEN after_wake(st)
    ELSE IF st.results # <<>>
    THEN [st EXCEPT !.results = SubSeq(@, 1, Len(@) - 1),
                    !.yielded[src_of(st.results[Len(st.results)])] =
                        Append(@, st.results[Len(st.results)]),
                    !.pc = "yield"]
    ELSE IF finished(st) THEN [st EXCEPT !.pc = "ended"]
    ELSE IF st.wake = "pending" THEN [st EXCEPT !.pc = "wait"]
    ELSE after_wake(st)

drain(st) ==
    IF st.results # <<>>
    THEN [st EXCEPT !.results = Tail(@),
                    !.yielded[src_of(Head(st.results))] = Append(@, Head(st.results)),
                    !.pc = "yield"]
    ELSE IF finished(st) THEN [st EXCEPT !.pc = "ended"]
    ELSE IF st.wake = "pending" THEN [st EXCEPT !.pc = "wait"]
    ELSE after_wake(st)

\* wake = create_future(); the done tasks are processed; next cycle.
\* (p is the state after the for loop, d the state after the dispatch loop;
\* each is bound in a singleton set so that it is evaluated once.)
after_wake(st) ==
    CHOOSE r \in {IF p.pc = "raised" THEN p
                  ELSE CHOOSE q \in {drain(d) : d \in {dispatch(p)}} : TRUE :
                     p \in {process([st EXCEPT !.wake = "pending"], st.done)}} : TRUE

MSet(st) ==
    /\ m_streams' = st.streams
    /\ m_todo' = st.todo
    /\ m_done' = st.done
    /\ m_wake' = st.wake
    /\ m_results' = st.results
    /\ m_pc' = st.pc
    /\ m_pulls' = st.pulls
    /\ m_yielded' = st.yielded
    /\ m_cancelled' = st.cancelled

\* The consumer asks the merged iteration for its next value: the generator
\* starts, or continues after the yield
m_anext ==
    /\ kind = "merger"
    /\ m_pc \in {"init", "yield"}
    /\ \E st \in {IF m_pc = "init" THEN drain(dispatch(MState)) ELSE drain(MState)} :
          MSet(st)
    /\ UNCHANGED <<srcVars, m_suppress, m_added, m_late>>
    /\ UNCHANGED notMerger

\* The generator resumes from await wake
m_resume ==
    /\ kind = "merger"
    /\ m_pc = "wait"
    /\ m_wake = "done"
    /\ \E st \in {after_wake(MState)} : MSet(st)
    /\ UNCHANGED <<srcVars, m_suppress, m_added, m_late>>
    /\ UNCHANGED notMerger

\* todo_to_done never setting wake
todo_to_done_silent(task, out) ==
    /\ m_done' = Append(m_done, [task |-> task, outcome |-> out])
    /\ m_todo' = m_todo \ {task}
    /\ m_wake' = m_wake

\* todo_to_done, the done callback of a pull task
todo_to_done(task, out) ==
    /\ m_done' = Append(m_done, [task |-> task, outcome |-> out])
    /\ m_todo' = m_todo \ {task}
    /\ m_wake' = IF m_wake # "done" THEN "done" ELSE m_wake

\* A pull task completes and its done callback runs
pull_done(task) ==
    /\ kind = "merger"
    /\ task \in m_todo \ m_cancelled
    /\ LET k == m_pos[task.src] + 1
       IN  /\ todo_to_done(task, outcome(task.src, k))
           /\ m_pos' = [m_pos EXCEPT ![task.src] = k]
    /\ UNCHANGED <<m_len, m_fail, m_suppress, m_streams, m_results, m_pc, m_pulls,
                   m_added, m_late, m_yielded, m_cancelled>>
    /\ UNCHANGED notMerger

\* A cancelled pull task ends with CancelledError and its done callback runs
pull_cancelled(task) ==
    /\ kind = "merger"
    /\ task \in m_todo \cap m_cancelled
    /\ todo_to_done(task, [how |-> "cancelled", val |-> 0])
    /\ UNCHANGED <<srcVars, m_suppress, m_streams, m_results, m_pc, m_pulls,
                   m_added, m_late, m_yielded, m_cancelled>>
    /\ UNCHANGED notMerger

\* add() appending to a deque the running generator does not read
add_lost(s) ==
    /\ kind = "merger"
    /\ s \notin m_added
    /\ m_pc \in {"init", "yield", "wait"}
    /\ m_streams' = IF m_pc = "init" THEN Append(m_streams, s) ELSE m_streams
    /\ m_added' = m_added \cup {s}
    /\ m_late' = IF m_pc = "yield" THEN m_late \cup {s} ELSE m_late
    /\ UNCHANGED <<srcVars, m_suppress, m_todo, m_done, m_wake, m_results, m_pc,
                   m_pulls, m_yielded, m_cancelled>>
    /\ UNCHANGED notMerger

\* Merger.add(stream), each source once; by the consumer while it processes
\* a yielded value, or by any task before or during the iteration
add(s) ==
    /\ kind = "merger"
    /\ s \notin m_added
    /\ m_pc \in {"init", "yield", "wait"}
    /\ m_streams' = Append(m_streams, s)
    /\ m_added' = m_added \cup {s}
    /\ m_late' = IF m_pc = "yield" THEN m_late \cup {s} ELSE m_late
    /\ UNCHANGED <<srcVars, m_suppress, m_todo, m_done, m_wake, m_results, m_pc,
                   m_pulls, m_yielded, m_cancelled>>
    /\ UNCHANGED notMerger

\* ---- diverter.Diverter --------------------------------------------------
Chans == 1..NChan

\* attach() is called as many times as there are channels, with any of them:
\* a channel can be attached under two tokens
MaxTokens == NChan

\* The channels and the tokens collected so far by Diverter.send
DState == [buffer |-> d_buffer, tokens |-> {}]

\* channel.send(value) on one attached channel: Closure when closed (the
\* token is collected), else the value is appended to its buffer
send_one(st, e, v) ==
    IF d_closed[e.chan] THEN [st EXCEPT !.tokens = @ \cup {e.token}]
    ELSE [st EXCEPT !.buffer[e.chan] = deque_append(@, v, d_max_size)]

\* for token, channel in self.channels().items(): try channel.send(value) ...
RECURSIVE send_each(_, _, _)
send_each(st, chs, v) ==
    IF chs = <<>> THEN st
    ELSE send_each(send_one(st, Head(chs), v), Tail(chs), v)

\* the collected tokens left attached
detach_none(chs, tokens) == chs

\* for token in tokens: self.detach(token)
detach_all(chs, tokens) == SelectSeq(chs, LAMBDA e : e.token \notin tokens)

\* Diverter.attach(channel)
d_attach(c) ==
    /\ kind = "diverter"
    /\ d_tok <= MaxTokens
    /\ d_channels' = Append(d_channels, [token |-> d_tok, chan |-> c])
    /\ d_tok' = d_tok + 1
    /\ UNCHANGED <<d_max_size, d_buffer, d_closed, d_val, d_result>>
    /\ UNCHANGED notDiverter

\* Diverter.detach(token): False when the token is not attached
d_detach(tok) ==
    /\ kind = "diverter"
    /\ d_channels' = detach_all(d_channels, {tok})
    /\ UNCHANGED <<d_max_size, d_buffer, d_closed, d_val, d_tok, d_result>>
    /\ UNCHANGED notDiverter

\* Diverter.send(value)
d_send ==
    /\ kind = "diverter"
    /\ d_val <= MaxVal
    /\ \E st \in {send_each(DState, d_channels, d_val)} :
          /\ d_buffer' = st.buffer
          /\ d_channels' = detach_all(d_channels, st.tokens)
    /\ d_val' = d_val + 1
    /\ d_result' = "ok"
    /\ UNCHANGED <<d_max_size, d_closed, d_tok>>
    /\ UNCHANGED notDiverter

\* Diverter.close(): close and detach every attached channel
d_close ==
    /\ kind = "diverter"
    /\ d_closed' = [c \in Chans |->
                      d_closed[c] \/ \E i \in 1..Len(d_channels) : d_channels[i].chan = c]
    /\ d_channels' = <<>>
    /\ UNCHANGED <<d_max_size, d_buffer, d_val, d_tok, d_result>>
    /\ UNCHANGED notDiverter

\* Diverter.clear(): clear every attached channel
d_clear ==
    /\ kind = "diverter"
    /\ d_buffer' = [c \in Chans |->
                      IF \E i \in 1..Len(d_channels) : d_channels[i].chan = c
                      THEN <<>> ELSE d_buffer[c]]
    /\ UNCHANGED <<d_channels, d_max_size, d_closed, d_val, d_tok, d_result>>
    /\ UNCHANGED notDiverter

\* The owner of a channel closes it: channel.Channel.close()
chan_close(c) ==
    /\ kind = "diverter"
    /\ ~d_closed[c]
    /\ d_closed' = [d_closed EXCEPT ![c] = TRUE]
    /\ UNCHANGED <<d_channels, d_max_size, d_buffer, d_val, d_tok, d_result>>
    /\ UNCHANGED notDiverter

\* ---- Stream / Series operators: timeout, limit, stagger -------------------
\* One operator generator between a parent iterator and a consumer.  The
\* parent produces o_vals and is then exhausted, or stalls for ever; each of
\* its pulls takes any amount of time.  Time is counted in ticks.

\* max(0, x)
Max0(x) == IF x < 0 THEN 0 ELSE x

\* The delay the generator works with: stagger clamps it with max(0, delay)
Delay == IF o_op = "stagger" THEN Max0(o_delay) ELSE o_delay

\* A timer is counting down: asyncio.sleep, or the deadline of wait_for
TimerRunning == o_pc \in {"sleep_first", "sleep"} \/ (o_pc = "pull" /\ o_timed)

\* except clause of timeout that lets TimeoutError through
timeout_catches_stop(exc) == exc = "StopAsyncIteration"

\* finite_timeout / Series.timeout: except (StopAsyncIteration, AsyncTimeoutError)
timeout_catches(exc) == exc \in {"StopAsyncIteration", "TimeoutError"}

\* limit testing the count before it yields
limit_reached_early(count, bound) == count + 1 = bound

\* limit: if count == bound: return
limit_reached(count, bound) == count = bound

\* stagger: prev_yield_time = curr_yield_time + leftover_delay
floor(curr, leftover) == curr + leftover

\* stagger: leftover_delay = max(0, delay - (curr_yield_time - prev_yield_time))
leftover_delay(curr, prev) == Max0(Delay - (curr - prev))

\* The generator ends: it returns (StopAsyncIteration for the consumer) or
\* an exception leaves it
o_finish(how) ==
    /\ o_pc' = "ended"
    /\ o_end' = how
    /\ o_timed' = FALSE
    /\ o_timer' = 0

\* await anext(self), under wait_for(..., delay) when timed
o_start_pull(where, timed) ==
    /\ o_pc' = where
    /\ o_pull' = "flight"
    /\ o_timed' = timed
    /\ o_timer' = IF timed THEN Delay ELSE 0
    /\ UNCHANGED o_end

\* yield value
o_yield(v) ==
    /\ o_pc' = "yield"
    /\ o_out' = Append(o_out, [val |-> v, at |-> o_now])
    /\ o_timed' = FALSE
    /\ o_timer' = 0
    /\ UNCHANGED o_end

\* await asyncio.sleep(d)
o_sleep(where, d) ==
    /\ o_pc' = where
    /\ o_timed' = FALSE
    /\ o_timer' = d
    /\ UNCHANGED o_end

\* The consumer asks the operator for its next value: the generator starts,
\* or continues after its yield, and runs to its next await
o_anext ==
    /\ kind = "stream"
    /\ o_pc \in {"init", "yield"}
    /\ CASE o_op = "limit" ->
              /\ IF o_pc = "init"
                 THEN IF o_bound <= 0
                      THEN o_finish("stop") /\ UNCHANGED <<o_pull, o_count>>
                      ELSE o_start_pull("pull", FALSE) /\ o_count' = 1
                 ELSE IF limit_reached(o_count, o_bound)
                      THEN o_finish("stop") /\ UNCHANGED <<o_pull, o_count>>
                      ELSE o_start_pull("pull", FALSE) /\ o_count' = o_count + 1
              /\ UNCHANGED <<o_prev, o_held>>
         [] o_op = "timeout" ->
              /\ o_start_pull("pull", IF o_pc = "init" THEN o_first_timed ELSE TRUE)
              /\ UNCHANGED <<o_prev, o_held, o_count>>
         [] o_op = "stagger" ->
              /\ IF o_pc = "init" /\ ~o_instant
                 THEN /\ o_prev' = o_now + Delay
                      /\ o_sleep("sleep_first", Delay)
                      /\ UNCHANGED o_pull
                 ELSE /\ o_start_pull("pull", FALSE)
                      /\ UNCHANGED o_prev
              /\ UNCHANGED <<o_held, o_count>>
    /\ UNCHANGED <<o_op, o_delay, o_bound, o_instant, o_first_timed, o_vals, o_stalls,
                   o_pos, o_now, o_out>>
    /\ UNCHANGED notOps

\* The parent's pull completes with its next value
o_pull_value ==
    /\ kind = "stream"
    /\ o_pc \in {"pull_first", "pull"} /\ o_pull = "flight"
    /\ o_pos < Len(o_vals)
    /\ o_pos' = o_pos + 1
    /\ o_pull' = "none"
    /\ IF o_op = "stagger" /\ o_pc = "pull"
       THEN /\ o_held' = o_vals[o_pos + 1]
            /\ o_prev' = floor(o_now, leftover_delay(o_now, o_prev))
            /\ o_sleep("sleep", leftover_delay(o_now, o_prev))
            /\ UNCHANGED o_out
       ELSE /\ o_yield(o_vals[o_pos + 1])
            /\ UNCHANGED <<o_held, o_prev>>
    /\ UNCHANGED <<o_op, o_delay, o_bound, o_instant, o_first_timed, o_vals, o_stalls,
                   o_now, o_count>>
    /\ UNCHANGED notOps

\* The parent's pull completes with StopAsyncIteration
o_pull_stop ==
    /\ kind = "stream"
    /\ o_pc \in {"pull_first", "pull"} /\ o_pull = "flight"
    /\ o_pos = Len(o_vals) /\ ~o_stalls
    /\ o_pull' = "none"
    /\ IF o_op = "timeout" /\ ~timeout_catches("StopAsyncIteration")
       THEN o_finish("StopAsyncIteration raised in the generator")
       ELSE o_finish("stop")
    /\ UNCHANGED <<o_op, o_delay, o_bound, o_instant, o_first_timed, o_vals, o_stalls,
                   o_pos, o_now, o_prev, o_held, o_count, o_out>>
    /\ UNCHANGED notOps

\* wait_for: the deadline passes while the pull is in flight; the pull is
\* cancelled and TimeoutError is raised in the generator
o_timed_out ==
    /\ kind = "stream"
    /\ o_pc = "pull" /\ o_timed /\ o_timer = 0
    /\ o_pull' = "cancelled"
    /\ IF timeout_catches("TimeoutError") THEN o_finish("stop")
       ELSE o_finish("TimeoutError")
    /\ UNCHANGED <<o_op, o_delay, o_bound, o_instant, o_first_timed, o_vals, o_stalls,
                   o_pos, o_now, o_prev, o_held, o_count, o_out>>
    /\ UNCHANGED notOps

\* asyncio.sleep returns
o_sleep_done ==
    /\ kind = "stream"
    /\ o_pc \in {"sleep_first", "sleep"} /\ o_timer = 0
    /\ IF o_pc = "sleep_first"
       THEN o_start_pull("pull_first", FALSE) /\ UNCHANGED o_out
       ELSE o_yield(o_held) /\ UNCHANGED o_pull
    /\ UNCHANGED <<o_op, o_delay, o_bound, o_instant, o_first_timed, o_vals, o_stalls,
                   o_pos, o_now, o_prev, o_held, o_count>>
    /\ UNCHANGED notOps

\* One tick of time passes; a timer that is due fires before the next tick
o_tick ==
    /\ kind = "stream"
    /\ o_pc # "ended"
    /\ ~(TimerRunning /\ o_timer = 0)
    /\ IF o_op = "stagger" THEN o_now < MaxTime ELSE TimerRunning
    /\ o_now' = IF o_op = "stagger" THEN o_now + 1 ELSE o_now
    /\ o_timer' = IF TimerRunning THEN o_timer - 1 ELSE o_timer
    /\ UNCHANGED <<o_op, o_delay, o_bound, o_instant, o_first_timed, o_vals, o_stalls,
                   o_pos, o_pull, o_pc, o_timed, o_prev, o_held, o_count, o_out, o_end>>
    /\ UNCHANGED notOps

\* ---- specifications -----------------------------------------------------
InitTasks ==
    /\ pc = [t \in Tasks |-> "idle"]
    /\ arg = [t \in Tasks |-> 0]
    /\ fut = [t \in Tasks |-> "none"]
    /\ must_cancel = [t \in Tasks |-> FALSE]
    /\ ready = <<>>
    /\ nextVal = 1
    /\ last = Step("init", NoTask, "ok")
    /\ appended = <<>>
    /\ recvd = <<>>
    /\ blocked_order = <<>>
    /\ cancels = 0
    /\ closes = 0
    /\ it_pc = "init"
    /\ it_out = <<>>

\* Merger.__init__; the iteration has not started
NewMerger(suppresses) ==
    /\ m_suppress \in suppresses
    /\ m_streams = <<>>
    /\ m_todo = {}
    /\ m_done = <<>>
    /\ m_wake = "pending"
    /\ m_results = <<>>
    /\ m_pc = "init"
    /\ m_pulls = [s \in Srcs |-> 0]
    /\ m_added = {}
    /\ m_late = {}
    /\ m_yielded = [s \in Srcs |-> <<>>]
    /\ m_cancelled = {}

\* The sources of the scenario: finite, each failing at most once.  The
\* sources are interchangeable (add() takes them in any order), so they are
\* numbered from the longest to the shortest.
NewSources(lens, fails) ==
    /\ m_len \in [Srcs -> lens]
    /\ m_fail \in [Srcs -> fails]
    /\ \A s \in Srcs : m_fail[s] <= m_len[s] + 1
    /\ \A s \in Srcs \ {NSrc} :
          \/ m_len[s] > m_len[s + 1]
          \/ m_len[s] = m_len[s + 1] /\ m_fail[s] >= m_fail[s + 1]
    /\ m_pos = [s \in Srcs |-> 0]

\* Diverter.__init__, and the channels that will be attached to it
NewDiverter(sizes) ==
    /\ d_channels = <<>>
    /\ d_max_size \in sizes
    /\ d_buffer = [c \in Chans |-> <<>>]
    /\ d_closed = [c \in Chans |-> FALSE]
    /\ d_val = 1
    /\ d_tok = 1
    /\ d_result = "ok"

\* The scenario has no Diverter
NoDiverter == NewDiverter({NoMaxSize})

\* The scenario has no Merger
NoMerger ==
    /\ NewMerger({FALSE})
    /\ NewSources({0}, {0})
    /\ NoDiverter

\* core.Channel.__init__
NewCore(sizes) ==
    /\ max_size \in sizes
    /\ values = <<>>
    /\ getters = <<>>
    /\ putters = <<>>
    /\ closer = "pending"

\* channel.Channel.__init__
NewChannel(sizes, debugs) ==
    /\ ch_max_size \in sizes
    /\ ch_buffer = <<>>
    /\ ch_receiver = NoTask
    /\ ch_closed = FALSE
    /\ ch_debug \in debugs

\* The scenario has no operator
NoOps ==
    /\ o_op = "none" /\ o_delay = 0 /\ o_bound = 0
    /\ o_instant = TRUE /\ o_first_timed = TRUE
    /\ o_vals = <<>> /\ o_stalls = FALSE /\ o_pos = 0 /\ o_pull = "none"
    /\ o_pc = "init" /\ o_timed = FALSE /\ o_timer = 0 /\ o_now = 0 /\ o_prev = 0
    /\ o_held = 0 /\ o_count = 0 /\ o_out = <<>> /\ o_end = "none"

\* The scenario constructs a core.Channel
InitCore ==
    /\ kind = "core"
    /\ NewCore(0..MaxCap)
    /\ NewChannel({NoMaxSize}, {TRUE})
    /\ InitTasks
    /\ NoMerger
    /\ NoOps

\* The scenario constructs a channel.Channel
InitChannel ==
    /\ kind = "channel"
    /\ NewCore({0})
    /\ NewChannel({NoMaxSize} \cup 0..MaxCap, {TRUE})
    /\ InitTasks
    /\ NoMerger
    /\ roles = [t \in Tasks |-> IF t \in Contenders THEN "receiver" ELSE "none"]
    /\ NoOps

Init ==
    /\ InitCore
    /\ roles = [t \in Tasks |-> IF t \in Contenders THEN "both" ELSE "none"]

\* NTasks sender tasks and one receiver task on a bounded core.Channel
InitWakeSend ==
    /\ InitCore
    /\ max_size > 0
    /\ roles = [t \in Tasks |-> IF t \in Contenders THEN "sender" ELSE "receiver"]

\* NTasks receiver tasks and one sender task on a core.Channel of capacity
\* MaxCap
InitWakeRecv ==
    /\ InitCore
    /\ max_size = MaxCap
    /\ roles = [t \in Tasks |-> IF t \in Contenders THEN "receiver" ELSE "sender"]

\* One producer task and one consumer task on a core.Channel
InitSPSC ==
    /\ InitCore
    /\ roles = [t \in Tasks |->
                  IF t = 1 THEN "sender" ELSE IF t = 2 THEN "receiver" ELSE "none"]

CoreNext ==
    \/ \E t \in Tasks : send_call(t)
    \/ \E t \in Tasks : send_resume(t)
    \/ \E t \in Tasks : recv_call(t)
    \/ \E t \in Tasks : recv_resume(t)
    \/ \E t \in Tasks : cancel(t)
    \/ close

ChannelNext ==
    \/ ch_send
    \/ \E t \in Tasks : ch_recv_call(t) /\ UNCHANGED itVars
    \/ \E t \in Tasks : ch_recv_resume(t) /\ UNCHANGED itVars
    \/ \E t \in Tasks : cancel(t)
    \/ ch_open
    \/ ch_close
    \/ ch_clear

\* The scenario has no channel
NoChannels ==
    /\ NewCore({0})
    /\ NewChannel({NoMaxSize}, {TRUE})
    /\ InitTasks
    /\ roles = [t \in Tasks |-> "none"]

\* The scenario iterates a Merger over sources that do not fail
InitMerger ==
    /\ kind = "merger"
    /\ NoChannels
    /\ NoDiverter
    /\ NewMerger({FALSE})
    /\ NewSources(0..MaxLen, {0})
    /\ NoOps

\* The scenario iterates a Merger over sources one of which may fail
InitMergerFail ==
    /\ kind = "merger"
    /\ NoChannels
    /\ NoDiverter
    /\ NewMerger(BOOLEAN)
    /\ NewSources(0..MaxLen, 0..(MaxLen + 1))
    /\ Cardinality({s \in Srcs : m_fail[s] # 0}) <= 1
    /\ NoOps

\* The scenario attaches channel.Channel objects to a Diverter
InitDiverter ==
    /\ kind = "diverter"
    /\ NoChannels
    /\ NewMerger({FALSE})
    /\ NewSources({0}, {0})
    /\ NewDiverter({NoMaxSize, MaxCap})
    /\ NoOps

DiverterNext ==
    \/ \E c \in Chans : d_attach(c)
    \/ \E tok \in 1..MaxTokens : d_detach(tok)
    \/ d_send
    \/ d_close
    \/ d_clear
    \/ \E c \in Chans : chan_close(c)

MergerNext ==
    \/ \E s \in Srcs : add(s)
    \/ m_anext
    \/ m_resume
    \/ \E task \in m_todo : pull_done(task)

MergerFailNext ==
    \/ MergerNext
    \/ \E task \in m_todo : pull_cancelled(task)

\* channel.Channel iterated by IterTask, its only receiver
IterNext ==
    \/ it_anext
    \/ it_resume
    \/ ch_send
    \/ cancel(IterTask)
    \/ ch_open
    \/ ch_close
    \/ ch_clear

Next == CoreNext

\* core.Channel, any task sends and receives
Spec == Init /\ [][Next]_vars

\* core.Channel, single producer and single consumer
SpecSPSC == InitSPSC /\ [][CoreNext]_vars

\* core.Channel, several senders blocked on a full buffer and one receiver
SpecWakeSend == InitWakeSend /\ [][CoreNext]_vars

\* core.Channel, several receivers blocked on an empty buffer and one sender
SpecWakeRecv == InitWakeRecv /\ [][CoreNext]_vars

\* channel.Channel
SpecChannel == InitChannel /\ [][ChannelNext]_vars

\* stream.Merger, sources that do not fail
SpecMerger == InitMerger /\ [][MergerNext]_vars

\* stream.Merger, sources that do not fail; the consumer keeps asking for
\* the next value, the event loop resumes the generator once wake is done,
\* and every pull in flight completes
SpecMergerLive ==
    /\ SpecMerger
    /\ WF_vars(m_anext)
    /\ WF_vars(m_resume)
    /\ \A s \in Srcs : WF_vars(\E task \in m_todo : task.src = s /\ pull_done(task))

\* stream.Merger, sources that may fail
SpecMergerFail == InitMergerFail /\ [][MergerFailNext]_vars

\* diverter.Diverter
SpecDiverter == InitDiverter /\ [][DiverterNext]_vars

\* channel.Channel, iterated
SpecIter == InitChannel /\ [][IterNext]_vars

\* either class
SpecChannels ==
    (Init \/ InitChannel) /\ [][CoreNext \/ ChannelNext]_vars

\* The sequences over S of length n, and of length at most n
SeqsOfLen(S, n) == [1..n -> S]
SeqsUpTo(S, n) == UNION {SeqsOfLen(S, k) : k \in 0..n}

\* An operator generator that has not started, over a parent that has not
\* been pulled
NewOperator(op, delays, bounds, instants, firsts, valss, stallss, nows) ==
    /\ kind = "stream"
    /\ NoChannels
    /\ NoDiverter
    /\ NewMerger({FALSE})
    /\ NewSources({0}, {0})
    /\ o_op = op
    /\ o_delay \in delays
    /\ o_bound \in bounds
    /\ o_instant \in instants
    /\ o_first_timed \in firsts
    /\ o_vals \in valss
    /\ o_stalls \in stallss
    /\ o_now \in nows
    /\ o_pos = 0 /\ o_pull = "none"
    /\ o_pc = "init" /\ o_timed = FALSE /\ o_timer = 0 /\ o_prev = 0
    /\ o_held = 0 /\ o_count = 0 /\ o_out = <<>> /\ o_end = "none"

\* The parents of the timed scenarios produce 1, 2, ..., n
Counting == {[i \in 1..n |-> i] : n \in 0..MaxLen}

\* parent.timeout(d), d > 0; Stream's `first` and Series's `infinite_first`
\* both decide whether the first retrieval is timed
InitTimeout ==
    NewOperator("timeout", 1..MaxDelay, {0}, {TRUE}, BOOLEAN, Counting, BOOLEAN, {0})

\* parent.limit(bound)
InitLimit ==
    NewOperator("limit", {0}, (0 - 2)..(MaxLen + 1), {TRUE}, {TRUE},
                SeqsUpTo(1..MaxVal, MaxLen), {FALSE}, {0})

\* parent.stagger(delay, instant_first=...), started at any time of the clock
InitStagger ==
    NewOperator("stagger", (0 - 1)..MaxDelay, {0}, BOOLEAN, {TRUE}, Counting, {FALSE},
                0..MaxDelay)

TimeoutNext ==
    \/ o_anext
    \/ o_pull_value
    \/ o_pull_stop
    \/ o_timed_out
    \/ o_tick

LimitNext ==
    \/ o_anext
    \/ o_pull_value
    \/ o_pull_stop

StaggerNext ==
    \/ o_anext
    \/ o_pull_value
    \/ o_pull_stop
    \/ o_sleep_done
    \/ o_tick

\* Stream.timeout / Series.timeout
SpecTimeout == InitTimeout /\ [][TimeoutNext]_vars

\* Stream.timeout / Series.timeout; time passes and a due deadline fires
SpecTimeoutLive ==
    /\ SpecTimeout
    /\ WF_vars(o_tick)
    /\ WF_vars(o_timed_out)

\* Stream.limit / Series.limit
SpecLimit == InitLimit /\ [][LimitNext]_vars

\* Series.stagger
SpecStagger == InitStagger /\ [][StaggerNext]_vars

TypeOK ==
    /\ kind \in {"core", "channel", "merger", "diverter", "stream"}
    /\ o_op \in {"none", "timeout", "limit", "stagger"}
    /\ o_pc \in {"init", "sleep_first", "pull_first", "pull", "sleep", "yield", "ended"}
    /\ o_pull \in {"none", "flight", "cancelled"}
    /\ o_timer \in 0..MaxDelay
    /\ o_now \in 0..MaxTime
    /\ o_pos \in 0..Len(o_vals)
    /\ max_size \in 0..MaxCap
    /\ Range(values) \subseteq 1..MaxVal
    /\ Range(getters) \subseteq Tasks
    /\ Range(putters) \subseteq Tasks
    /\ closer \in {"pending", "done"}
    /\ ch_max_size \in {NoMaxSize} \cup 0..MaxCap
    /\ Range(ch_buffer) \subseteq 1..MaxVal
    /\ ch_receiver \in Tasks \cup {NoTask}
    /\ ch_closed \in BOOLEAN
    /\ pc \in [Tasks -> {"idle", "send", "recv"}]
    /\ fut \in [Tasks -> {"none", "pending", "result", "exception", "cancelled"}]
    /\ must_cancel \in [Tasks -> BOOLEAN]
    /\ Range(ready) \subseteq Tasks
    /\ last.op \in {"init", "send", "recv", "close", "cancel", "open", "clear"}
    /\ last.task \in Tasks \cup {NoTask}
    /\ last.result \in {"ok", "suspended", "Closure", "Cancelled",
                        "RuntimeError", "InvalidStateError"}

\* The naming of a future by its task is sound: a task that is not suspended
\* has no future and is in no queue, a suspended task is scheduled exactly
\* when its future is done, and no task is queued or scheduled twice.
FutureNaming ==
    /\ \A t \in Tasks :
        /\ (pc[t] = "idle") =>
              /\ fut[t] = "none"
              /\ t \notin Range(putters \o getters \o ready)
              /\ ch_receiver # t
        /\ (pc[t] # "idle") => fut[t] # "none" /\ (t \in Range(ready) <=> done(fut, t))
        /\ fut[t] = "result" => t \notin Range(putters \o getters)
    /\ \A i, j \in 1..Len(putters \o getters) :
        (putters \o getters)[i] = (putters \o getters)[j] => i = j
    /\ \A i, j \in 1..Len(ready) : ready[i] = ready[j] => i = j

\* ---- claims -------------------------------------------------------------
Suspended(t, op) == pc[t] = op
Cancelled(t) == must_cancel[t] \/ fut[t] = "cancelled"

\* C1: on a bounded core.Channel the buffer never holds more than max_size
\* values, whatever the interleaving of send, recv, close and cancellation.
C1_BufferWithinCapacity == max_size > 0 => Len(values) <= max_size

\* a woken sender has not resumed yet and the buffer was filled again by a
\* sender that arrived in between
C1_Witness ==
    /\ max_size > 0 /\ Len(values) = max_size
    /\ \E t \in Tasks : pc[t] = "send" /\ fut[t] = "result"

\* C2: the close() that closes the channel sets Closure on the future of
\* every call that is waiting in a queue at that moment.
C2_CloseFailsEveryWaiter ==
    [][(closer = "pending" /\ closer' = "done") =>
         \A t \in Range(putters \o getters) :
            fut[t] = "pending" => fut'[t] = "exception"]_vars

\* C3: unwinding a cancelled recv leaves the buffer and the received values
\* as they are, and a recv that returns takes the oldest buffered value: no
\* value is dropped by the cancellation.
C3_CancelledRecvKeepsValues ==
    [][/\ (last'.op = "recv" /\ last'.result = "Cancelled") =>
            values' = values /\ recvd' = recvd /\ appended' = appended
       /\ (last'.op = "recv" /\ last'.result = "ok") =>
            values # <<>> /\ recvd' = Append(recvd, Head(values))
                          /\ values' = Tail(values)]_vars

\* a recv that a send had already woken was cancelled and has unwound; the
\* value is still buffered
C3_Witness ==
    /\ last.op = "recv" /\ last.result = "Cancelled"
    /\ values # <<>> /\ recvd = <<>>

\* C4: with one producer task and one consumer task, the values received are
\* the values sent successfully, in send order (values are numbered in the
\* order of the send calls).
C4_SPSCFifo ==
    /\ \A i, j \in 1..Len(appended) : i < j => appended[i] < appended[j]
    /\ Len(recvd) <= Len(appended)
    /\ recvd = SubSeq(appended, 1, Len(recvd))

C4_Witness == Len(recvd) >= 2 /\ values # <<>>

\* C5: a call that completes a send or a recv does not overtake a call of the
\* same kind that suspended earlier and is still waiting (not cancelled, not
\* failed by close()): for recv among suspended calls, for send also against
\* a sender that arrived later and never suspended.
C5_ServedInArrivalOrder ==
    [][\A b \in Tasks :
         (last'.task = b /\ last'.op \in {"send", "recv"} /\ last'.result = "ok") =>
            ~ \E a \in Tasks \ {b} :
                /\ Suspended(a, last'.op)
                /\ ~Cancelled(a) /\ fut[a] # "exception"
                /\ \/ Before(blocked_order, a, b)
                   \/ last'.op = "send" /\ b \notin Range(blocked_order)]_vars

\* C6: a send call on a closed channel raises Closure at once and changes
\* neither the buffer nor the waiters (core.Channel and channel.Channel).
C6_SendOnClosedFails ==
    [][(last'.op = "send" /\ nextVal' # nextVal) =>
         /\ (kind = "core" /\ closed) =>
               /\ last'.result = "Closure"
               /\ UNCHANGED <<values, getters, putters, pc, fut, ready>>
         /\ (kind = "channel" /\ ch_closed) =>
               /\ last'.result = "Closure"
               /\ UNCHANGED <<ch_buffer, ch_receiver, pc, fut, ready>>]_vars

C6_Witness ==
    /\ kind = "core" /\ closed /\ values # <<>>
    /\ last.op = "send" /\ last.result = "Closure"

\* C7: a recv call raises Closure only when the channel is closed and the
\* buffer is empty.
C7_ClosureOnlyWhenDrained ==
    (last.op = "recv" /\ last.result = "Closure") => closed /\ empty(values)

\* C8: once the channel is closed no call is added to a waiter queue.
C8_NoWaiterAfterClose ==
    [][closed => /\ Range(putters') \subseteq Range(putters)
                 /\ Range(getters') \subseteq Range(getters)]_vars

\* C9 as stated: the closed flag of a channel never goes back to false.
C9_ClosedNeverReverses ==
    [][(closed => closed') /\ (ch_closed => ch_closed')]_vars

\* C9 amended: the closed flag of core.Channel never goes back to false, and
\* the closed flag of channel.Channel goes back to false only by open().
C9_ClosedReversesOnlyByOpen ==
    [][/\ closed => closed'
       /\ (ch_closed /\ ~ch_closed') => last'.op = "open"]_vars

\* a closed channel.Channel has served a later operation and is still closed
C9_Witness ==
    /\ kind = "channel" /\ ch_closed
    /\ last.op = "recv" /\ last.result = "Closure"

\* C10: close() on a closed core.Channel raises RuntimeError and changes
\* nothing.
C10_SecondCloseRaises ==
    [][(closes' # closes /\ closed) =>
         /\ last'.result = "RuntimeError"
         /\ UNCHANGED <<coreVars, taskVars>>]_vars

\* the second close() came while waiters failed by the first one were still
\* queued
C10_Witness ==
    /\ last.op = "close" /\ last.result = "RuntimeError"
    /\ \E t \in Range(putters \o getters) : fut[t] = "exception"

\* ---- stream.Merger: claims ----------------------------------------------
\* The values source s produces
Produced(s) == {val(s, i) : i \in 1..m_len[s]}

\* Source s has signalled exhaustion: one of its completed pulls raised
\* StopAsyncIteration
Exhausted(s) == \E k \in 1..m_pos[s] : outcome(s, k).how = "stop"

\* Every value of source s has been yielded exactly once
Drained(s) ==
    /\ Len(m_yielded[s]) = m_len[s]
    /\ Range(m_yielded[s]) = Produced(s)

\* C11: with sources that do not fail, no value is yielded twice and none
\* that a source did not produce, and when the merged iteration has ended
\* every added source has signalled exhaustion and every value it produced
\* has been yielded exactly once.
C11_MergeComplete ==
    /\ \A s \in Srcs :
          /\ Range(m_yielded[s]) \subseteq Produced(s)
          /\ Cardinality(Range(m_yielded[s])) = Len(m_yielded[s])
          /\ m_yielded[s] # <<>> => s \in m_added
    /\ m_pc = "ended" => \A s \in m_added : Exhausted(s) /\ Drained(s)

\* the merge of two sources, of two values and of one or two, has ended
C11_Witness ==
    /\ kind = "merger"
    /\ m_pc = "ended"
    /\ m_added = Srcs
    /\ m_len[1] >= 2
    /\ \A s \in Srcs : m_len[s] >= 1

\* C12: a source passed to add() while the consumer was processing a yielded
\* value has been dispatched, has signalled exhaustion and has had every
\* value it produced yielded by the time the merged iteration has ended.
C12_LateSourceDrained ==
    m_pc = "ended" =>
        \A s \in m_late : m_pulls[s] >= 1 /\ Exhausted(s) /\ Drained(s)

\* the merge has ended after the consumer added a source with values while
\* it held a yielded value
C12_Witness ==
    /\ kind = "merger"
    /\ m_pc = "ended"
    /\ \E s \in m_late : m_len[s] >= 1

\* The pull tasks of source s that are in flight or completed and unprocessed
PullsOf(s) ==
    Cardinality({task \in m_todo : task.src = s})
        + Cardinality({i \in 1..Len(m_done) : m_done[i].task.src = s})

\* C13: at every point of a Merger iteration (until it has raised, when its
\* maps are dropped with the generator) each source has at most one pull
\* task in flight or completed but unprocessed, and a source that is
\* registered for its next pull has none.
C13_OnePullPerSource ==
    m_pc # "raised" =>
        \A s \in Srcs :
            PullsOf(s) + Cardinality({i \in 1..Len(m_streams) : m_streams[i] = s}) <= 1

\* a source is in its second pull while another source's completed pull is
\* not processed yet
C13_Witness ==
    /\ kind = "merger"
    /\ \E s, r \in Srcs :
          /\ s # r
          /\ m_pulls[s] >= 2
          /\ Pull(s, m_pulls[s]) \in m_todo
          /\ \E i \in 1..Len(m_done) : m_done[i].task.src = r

\* The generator takes the completed pulls in this step: it was resumed with
\* wake done and replaced it
ProcessesDone == m_wake = "done" /\ m_wake' = "pending"

FailureInDone == \E i \in 1..Len(m_done) : m_done[i].outcome.how = "error"

\* C14: in default mode, the step in which the generator takes a completed
\* pull that failed cancels every pull still in flight, raises to the
\* consumer and yields nothing; once it has raised the merge stays ended and
\* yields no value.
C14_FailureAbortsMerge ==
    [][/\ (~m_suppress /\ ProcessesDone /\ FailureInDone) =>
            /\ m_pc' = "raised"
            /\ m_todo' \subseteq m_cancelled'
            /\ m_yielded' = m_yielded
       /\ m_pc = "raised" => (m_pc' = "raised" /\ m_yielded' = m_yielded)]_vars

\* the merge raised after it had yielded a value, with a pull in flight
C14_Witness ==
    /\ kind = "merger"
    /\ ~m_suppress
    /\ m_pc = "raised"
    /\ m_cancelled # {}
    /\ \E s \in Srcs : m_yielded[s] # <<>>

\* The failing pull of source s has completed
HasFailed(s) == m_fail[s] # 0 /\ m_pos[s] >= m_fail[s]

\* C15 as claimed: in suppress mode, the step in which the generator takes a
\* completed pull that failed does not raise, and the source of that pull is
\* registered for the next cycle: its next pull is dispatched at the top of
\* that cycle.
C15_SuppressKeepsSource ==
    [][(m_suppress /\ ProcessesDone /\ FailureInDone) =>
          /\ m_pc' # "raised"
          /\ \A i \in 1..Len(m_done) :
                m_done[i].outcome.how = "error" =>
                    LET s == m_done[i].task.src
                    IN  Pull(s, m_pulls[s] + 1) \in m_todo']_vars

\* C15, amended: in suppress mode, the step in which the generator takes a
\* completed pull that failed does not raise, queues every value taken in
\* the same step and dispatches the next pull of its source, and leaves the
\* failing source unregistered; a source that has failed is never pulled
\* again, and when the merge has ended every other added source has
\* signalled exhaustion and had all its values yielded.
C15_SuppressDropsSource ==
    /\ [][/\ (m_suppress /\ ProcessesDone /\ FailureInDone) =>
               /\ m_pc' # "raised"
               /\ \A i \in 1..Len(m_done) :
                     LET s == m_done[i].task.src
                         v == m_done[i].outcome.val
                     IN  /\ m_done[i].outcome.how = "error" =>
                               /\ \A task \in m_todo' : task.src # s
                               /\ m_done' = <<>>
                               /\ \A j \in 1..Len(m_streams') : m_streams'[j] # s
                         /\ m_done[i].outcome.how = "value" =>
                               /\ Pull(s, m_pulls[s] + 1) \in m_todo'
                               /\ \/ v \in Range(m_results')
                                  \/ m_yielded'[s] = Append(m_yielded[s], v)
          /\ \A s \in Srcs : HasFailed(s) => m_pulls'[s] = m_pulls[s]]_vars
    /\ [](m_suppress /\ m_pc = "ended" =>
             \A s \in m_added : m_fail[s] = 0 => Exhausted(s) /\ Drained(s))

\* in suppress mode the merge has ended after a source failed with values
\* left to produce, and another source was drained
C15_Witness ==
    /\ kind = "merger"
    /\ m_suppress
    /\ m_pc = "ended"
    /\ \E s, r \in m_added :
          /\ s # r
          /\ HasFailed(s)
          /\ Len(m_yielded[s]) < m_len[s]
          /\ m_len[r] >= 1
          /\ Drained(r)

\* C16: with finite sources that do not fail, pulls that complete and a
\* consumer that keeps pulling, the merged iteration eventually ends, and
\* while it is suspended on wake a pull is in flight or wake is already done.
C16_MergeTerminates ==
    /\ <>(m_pc = "ended")
    /\ [](m_pc = "wait" => (m_todo # {} \/ m_wake = "done"))

\* the merge has ended after every source was added and pulled to exhaustion
C16_Witness ==
    /\ kind = "merger"
    /\ m_pc = "ended"
    /\ m_added = Srcs
    /\ \A s \in Srcs : m_len[s] >= 1 /\ m_pulls[s] = m_len[s] + 1

\* ---- channel.Channel: claims ---------------------------------------------
\* C17: a recv call on a channel.Channel that has been closed before the
\* call, or is closed while the call is suspended, raises Closure: no recv
\* call returns a value while the channel is closed.
C17_RecvFailsAcrossClose ==
    (kind = "channel" /\ last.op = "recv" /\ last.result = "ok") => ~ch_closed

\* The last n items of sequence q
LastN(q, n) == SubSeq(q, Len(q) - n + 1, Len(q))

Min(a, b) == IF a <= b THEN a ELSE b

\* C18: a send on an open channel.Channel returns without suspending and
\* leaves in the buffer the most recent items of the old buffer followed by
\* the new value, as many as max_size allows (all of them when max_size is
\* None), the oldest being discarded; the buffer never exceeds max_size.
C18_SendKeepsNewest ==
    /\ [][(kind = "channel" /\ nextVal' # nextVal /\ ~ch_closed) =>
             LET all == Append(ch_buffer, nextVal)
                 n == IF ch_max_size = NoMaxSize THEN Len(all)
                      ELSE Min(Len(all), ch_max_size)
             IN  /\ last' = Step("send", NoTask, "ok")
                 /\ pc' = pc
                 /\ ch_buffer' = LastN(all, n)]_vars
    /\ [](ch_max_size # NoMaxSize => Len(ch_buffer) <= ch_max_size)

\* a third value was sent to a full channel of size two: the first is gone
C18_Witness ==
    /\ kind = "channel"
    /\ last = Step("send", NoTask, "ok")
    /\ ch_max_size = 2
    /\ ch_buffer = <<2, 3>>

\* ---- diverter.Diverter: claims -------------------------------------------
\* How many tokens channel c is attached under
Attached(c) == Cardinality({i \in 1..Len(d_channels) : d_channels[i].chan = c})

\* C19: Diverter.send(value) returns normally; every attached channel that
\* is open receives the value (once per token it is attached under, its
\* buffer keeping what its max_size allows) and stays attached; every
\* attached channel that is closed is detached and only those; the buffers
\* of closed and of unattached channels are left alone.
C19_SendDetachesClosed ==
    [][(kind = "diverter" /\ d_val' # d_val) =>
          /\ d_result' = "ok"
          /\ d_channels' = SelectSeq(d_channels, LAMBDA e : ~d_closed[e.chan])
          /\ \A c \in Chans :
                LET all == d_buffer[c] \o [j \in 1..Attached(c) |-> d_val]
                    n == IF d_max_size = NoMaxSize THEN Len(all)
                         ELSE Min(Len(all), d_max_size)
                IN  d_buffer'[c] = IF d_closed[c] THEN d_buffer[c] ELSE LastN(all, n)]_vars

\* the second value was sent after one of two attached channels was closed:
\* the open one holds both values and is attached, the closed one holds the
\* first and is detached
C19_Witness ==
    /\ kind = "diverter"
    /\ d_val = 3
    /\ \E c, o \in Chans :
          /\ d_closed[c] /\ Attached(c) = 0 /\ d_buffer[c] = <<1>>
          /\ ~d_closed[o] /\ Attached(o) = 1 /\ d_buffer[o] = <<1, 2>>

\* ---- channel.Channel.__aiter__: claims ------------------------------------
\* C20: iterating a channel.Channel yields exactly the values its recv calls
\* returned, in order; a recv call that raises Closure ends the iteration as
\* exhaustion, not as an error, and an ended iteration yields nothing more.
C20_IterationEndsOnClosure ==
    /\ [](it_out = recvd)
    /\ [][/\ (last'.op = "recv" /\ last'.result = "ok") =>
               (it_pc' = "yield" /\ it_out' = Append(it_out, Head(ch_buffer)))
          /\ (last'.op = "recv" /\ last'.result = "Closure") => it_pc' = "ended"
          /\ it_pc = "ended" => (it_pc' = "ended" /\ it_out' = it_out)]_vars

\* the iteration yielded two values and was then ended by Closure
C20_Witness ==
    /\ kind = "channel"
    /\ it_pc = "ended"
    /\ it_out = <<1, 2>>
    /\ last = Step("recv", IterTask, "Closure")

\* ---- core.Channel: waiters -----------------------------------------------
\* Task t is suspended in op ("send" or "recv") and its waiter is still
\* pending in the queue q
Waiting(t, op, q) == pc[t] = op /\ fut[t] = "pending" /\ t \in Range(q)

\* Task t is suspended in op and its waiter has been woken: the wake-up has
\* not been acted on yet
Woken(t, op) == pc[t] = op /\ fut[t] = "result"

\* C24: on an open core.Channel whose buffer is below capacity, whenever a
\* sender is still waiting in the sender queue, some sender has been woken
\* and has not resumed yet: a wake-up that a cancelled sender received is
\* passed on to the oldest sender that remains.
C24_SenderWakePassedOn ==
    (kind = "core" /\ ~closed /\ ~full(values)
        /\ \E t \in Tasks : Waiting(t, "send", putters))
    => \E t \in Tasks : Woken(t, "send")

\* A sender that was woken and then cancelled has not resumed yet, and
\* another sender waits behind it on the open channel below capacity
C24_Witness ==
    /\ kind = "core" /\ ~closed /\ ~full(values)
    /\ last.op = "cancel" /\ must_cancel[last.task] /\ Woken(last.task, "send")
    /\ \E t \in Tasks : Waiting(t, "send", putters)

\* C25: on a core.Channel whose buffer is not empty, whenever a receiver is
\* still waiting in the receiver queue, some receiver has been woken and has
\* not resumed yet: a wake-up that a cancelled receiver received is passed on
\* to the oldest receiver that remains.
C25_ReceiverWakePassedOn ==
    (kind = "core" /\ ~empty(values)
        /\ \E t \in Tasks : Waiting(t, "recv", getters))
    => \E t \in Tasks : Woken(t, "recv")

\* A receiver that was woken and then cancelled has not resumed yet, and
\* another receiver waits behind it while the buffer holds a value
C25_Witness ==
    /\ kind = "core" /\ ~empty(values)
    /\ last.op = "cancel" /\ must_cancel[last.task] /\ Woken(last.task, "recv")
    /\ \E t \in Tasks : Waiting(t, "recv", getters)

\* ---- core.Channel: _wake_next ---------------------------------------------
\* Position in the queue q of its oldest waiter that is not done, 0 when
\* every waiter of q is done
OldestPending(q) ==
    IF \E i \in 1..Len(q) : fut[q[i]] = "pending"
    THEN CHOOSE i \in 1..Len(q) :
            fut[q[i]] = "pending" /\ \A j \in 1..(i - 1) : fut[q[j]] # "pending"
    ELSE 0

\* What a call of _wake_next on q has to leave: the entries behind the oldest
\* pending waiter, nothing when there is none
AfterWake(q) ==
    IF OldestPending(q) = 0 THEN <<>> ELSE SubSeq(q, OldestPending(q) + 1, Len(q))

\* C26: a step of core.Channel gives a result to at most one waiter; that
\* waiter is the oldest one of its queue that is not done, and the queue
\* loses it and every done entry ahead of it. A send that appended (which
\* calls _wake_next on the receivers) and a recv that took a value (which
\* calls it on the senders) wake nobody only when every waiter is done, and
\* then empty the queue.
C26_WakeOldestPending ==
    [][kind = "core" =>
        LET WokenNow == {t \in Tasks : fut[t] = "pending" /\ fut'[t] = "result"} IN
        /\ Cardinality(WokenNow) <= 1
        /\ \A t \in WokenNow :
              IF pc[t] = "send"
              THEN /\ putters[OldestPending(putters)] = t
                   /\ putters' = AfterWake(putters)
              ELSE /\ getters[OldestPending(getters)] = t
                   /\ getters' = AfterWake(getters)
        /\ appended' # appended =>
              /\ getters' = AfterWake(getters)
              /\ OldestPending(getters) # 0 => WokenNow # {}
        /\ recvd' # recvd =>
              /\ putters' = AfterWake(putters)
              /\ OldestPending(putters) # 0 => WokenNow # {}
    ]_vars

\* A recv took a value and woke a sender that waited behind a cancelled one:
\* the cancelled sender has not resumed yet and is no longer queued
C26_Witness ==
    /\ kind = "core" /\ last.op = "recv" /\ last.result = "ok"
    /\ \E c, w \in Tasks :
          /\ pc[c] = "send" /\ fut[c] = "cancelled" /\ c \notin Range(putters)
          /\ Woken(w, "send") /\ Before(blocked_order, c, w)

\* C27: on a core.Channel a waiter is queued at most once and in one queue
\* only, the sender queue while its task is suspended in send and the
\* receiver queue while it is suspended in recv; once the call has finished
\* (returned, raised Closure or was cancelled) its waiter is in neither
\* queue.
C27_WaitersLeaveQueues ==
    kind = "core" =>
        /\ \A t \in Range(putters) : pc[t] = "send" /\ t \notin Range(getters)
        /\ \A t \in Range(getters) : pc[t] = "recv"
        /\ \A i, j \in 1..Len(putters) : putters[i] = putters[j] => i = j
        /\ \A i, j \in 1..Len(getters) : getters[i] = getters[j] => i = j
        /\ \A t \in Tasks :
              pc[t] = "idle" => t \notin Range(putters) \cup Range(getters)

\* A call that was cancelled while its waiter was queued has finished, and
\* the waiter of another call is still queued
C27_Witness ==
    /\ kind = "core" /\ last.result = "Cancelled" /\ cancels > 0
    /\ pc[last.task] = "idle"
    /\ Range(putters) \cup Range(getters) # {}

\* C30: no value is appended to the buffer of a core.Channel that is closed;
\* this includes the append of a sender that a recv woke before close() and
\* that resumes after it.
C30_NoAppendWhenClosed ==
    [][(kind = "core" /\ values' # values /\ Len(values') > Len(values)) => ~closed]_vars

\* The pull of source s that produced the value v
PullOf(s, v) ==
    CHOOSE k \in 1..(MaxLen + 2) : outcome(s, k) = [how |-> "value", val |-> v]

\* The pull task is in flight or has completed and is not processed yet
Dispatched(task, todo, dn) ==
    task \in todo \/ \E i \in 1..Len(dn) : dn[i].task = task

\* C29: in the step that hands a value of source s to the consumer, a pull
\* of s dispatched after the one that produced the value is in flight or
\* already completed.
C29_RedispatchedBeforeYield ==
    [][\A s \in Srcs :
          m_yielded'[s] # m_yielded[s] =>
              LET v == m_yielded'[s][Len(m_yielded'[s])] IN
              /\ m_pulls'[s] > PullOf(s, v)
              /\ Dispatched(Pull(s, m_pulls'[s]), m_todo', m_done')]_vars

\* the consumer holds the first value of the only source added, and the
\* second pull of that source is in flight
C29_Witness ==
    /\ kind = "merger"
    /\ m_pc = "yield"
    /\ \E s \in Srcs :
          /\ m_added = {s}
          /\ Len(m_yielded[s]) = 1
          /\ Pull(s, 2) \in m_todo

\* Source s has been passed to add() and no pull has been dispatched for it
Undispatched(s) == s \in Range(m_streams)

\* C28 as claimed: the result buffer is empty whenever the generator waits,
\* and the generator never waits for a pull in flight while a source that
\* the consumer added during the drain has no pull dispatched.
C28_LateSourceNeedsNoWait ==
    m_pc = "wait" =>
        /\ m_results = <<>>
        /\ \A s \in m_late : ~Undispatched(s)

\* C28, amended: the result buffer is empty whenever the generator waits; a
\* source added during the drain stays without a pull while the consumer
\* holds a value and while the generator then waits for wake, and the step
\* in which the generator takes the completed pulls without raising (at once
\* when a pull completed during the drain, otherwise after the wait)
\* dispatches the first pull of every source added since the last dispatch.
C28_LateSourceAfterWake ==
    /\ [](m_pc = "wait" => m_results = <<>>)
    /\ [](\A s \in m_late : Undispatched(s) => m_pc \in {"yield", "wait", "raised"})
    /\ [][(ProcessesDone /\ m_pc' # "raised") =>
             /\ m_streams' = <<>>
             /\ \A s \in Range(m_streams) :
                   /\ m_pulls[s] = 0 /\ m_pulls'[s] = 1
                   /\ Dispatched(Pull(s, 1), m_todo', m_done')]_vars

\* the first pull of a source added during the drain is in flight after the
\* generator waited for another source's pull
C28_Witness ==
    /\ kind = "merger"
    /\ m_pc \in {"yield", "wait"}
    /\ \E s \in m_late :
          /\ Pull(s, 1) \in m_todo
          /\ \E r \in Srcs \ {s} : m_pos[r] >= 2

\* ---- Stream / Series operators: claims ------------------------------------
\* The values the operator has yielded, in order
Yielded == [i \in 1..Len(o_out) |-> o_out[i].val]

\* The first min(n, length) values of the parent, none for n <= 0
FirstN(n) == SubSeq(o_vals, 1, Min(Max0(n), Len(o_vals)))

\* C22: what limit(bound) has yielded is always a prefix of the first
\* min(bound, length) values of its parent, in the parent's order; when it
\* has ended it ended by returning and has yielded exactly those values, and
\* for bound <= 0 it yields nothing.
C22_LimitYieldsFirstN ==
    o_op = "limit" =>
        /\ Len(Yielded) <= Len(FirstN(o_bound))
        /\ Yielded = SubSeq(FirstN(o_bound), 1, Len(Yielded))
        /\ o_bound <= 0 => o_out = <<>>
        /\ o_pc = "ended" => (o_end = "stop" /\ Yielded = FirstN(o_bound))

\* limit(1) over a parent of two values has ended after one value
C22_Witness ==
    /\ o_op = "limit" /\ o_pc = "ended"
    /\ o_bound = 1 /\ Len(o_vals) = 2 /\ Len(o_out) = 1

\* C23: successive yields of stagger(delay) are at least max(0, delay) ticks
\* apart, for both values of instant_first and however long the parent's
\* pulls and the consumer take.
C23_StaggeredByDelay ==
    o_op = "stagger" =>
        \A i \in 1..(Len(o_out) - 1) : o_out[i + 1].at - o_out[i].at >= Delay

\* With instant_first true the yields are staggered
StaggeredInstantFirst ==
    (o_op = "stagger" /\ o_instant) =>
        \A i \in 1..(Len(o_out) - 1) : o_out[i + 1].at - o_out[i].at >= Delay

\* The timed pull in flight is the one the parent never answers
Stalled ==
    o_op = "timeout" /\ o_pc = "pull" /\ o_timed /\ o_stalls /\ o_pos = Len(o_vals)

\* C21: timeout(d) never ends with an error and yields the values its
\* parent delivered, in order; when it has ended every delivered value has
\* been yielded and no pull is left in flight, and over a parent that stalls
\* it has ended by cancelling the pull.  Once the pull of a parent that has
\* delivered its values and stalls is under the deadline, the iteration
\* ends as ordinary exhaustion with exactly those values yielded and that
\* pull cancelled.
C21_TimeoutEndsStalledStream ==
    /\ [](o_op = "timeout" =>
            /\ o_end \in {"none", "stop"}
            /\ Len(Yielded) <= o_pos
            /\ Yielded = SubSeq(o_vals, 1, Len(Yielded))
            /\ o_pull = "flight" => o_pc = "pull"
            /\ o_pc = "ended" =>
                  /\ Yielded = SubSeq(o_vals, 1, o_pos)
                  /\ o_stalls => o_pull = "cancelled")
    /\ (Stalled ~>
           (o_pc = "ended" /\ o_end = "stop" /\ o_pull = "cancelled" /\ Yielded = o_vals))

\* the parent delivered its one value and stalled; the iteration has ended
\* with that value yielded and the stalled pull cancelled
C21_Witness ==
    /\ o_op = "timeout" /\ o_pc = "ended" /\ o_end = "stop"
    /\ o_stalls /\ Len(o_vals) = 1 /\ Len(o_out) = 1
    /\ o_pull = "cancelled"

\* No entry of the sequence q occurs twice
Distinct(q) == \A i, j \in 1..Len(q) : q[i] = q[j] => i = j

\* C31: on a core.Channel every value of a send call that returned is in
\* the buffer or has been returned by a recv call, not both and only once;
\* the buffer and the received values hold nothing else, and a send returns
\* only by appending the value it was called with.
C31_ValuesConserved ==
    /\ [](kind = "core" =>
            /\ Distinct(appended) /\ Distinct(recvd) /\ Distinct(values)
            /\ Range(recvd) \cap Range(values) = {}
            /\ Range(recvd) \cup Range(values) = Range(appended))
    /\ [][(kind = "core" /\ last'.op = "send" /\ last'.result = "ok") =>
             /\ Len(appended') = Len(appended) + 1
             /\ values' = Append(values, appended'[Len(appended')])
             /\ recvd' = recvd]_vars

\* after a cancellation and close(), one value has been received and
\* another is still buffered
C31_Witness ==
    /\ kind = "core" /\ closed /\ cancels > 0
    /\ recvd # <<>> /\ values # <<>>
    /\ \E t \in Tasks : last.task = t /\ last.result = "Cancelled"

\* C32: the values of each source are yielded in the order in which the
\* source produced them (val(s, k) is the k-th value of s), whatever the
\* order in which the pulls of the sources complete.
C32_SourceOrderPreserved ==
    kind = "merger" =>
        \A s \in Srcs :
            \A i, j \in 1..Len(m_yielded[s]) :
                i < j => m_yielded[s][i] < m_yielded[s][j]

\* two values of one source have been yielded, and so has a value of
\* another source whose pulls completed ahead of it
C32_Witness ==
    /\ kind = "merger"
    /\ \E s, r \in Srcs :
          /\ s # r
          /\ Len(m_yielded[s]) >= 2
          /\ m_yielded[r] # <<>>
          /\ m_pos[r] > m_pos[s]

====
